---- MODULE Spec2Model ----
(***************************************************************************)
(* Model of server.py: the FetchSERP MCP server.                           *)
(*                                                                         *)
(* The process reads its environment, checks the API token, creates the    *)
(* FastMCP server with its two tools (search, fetch) and serves.  Both     *)
(* tools are coroutines without an await: the event loop runs each call    *)
(* from start to end, so a call is one atomic step.  call_fetchserp is the *)
(* upstream client defined inside create_mcp_server.                       *)
(*                                                                         *)
(* Python values: a str that the code inspects character by character (the *)
(* search query) is a sequence of one-character strings; a str that is     *)
(* only compared or copied is a TLA+ string; an f-string is the tuple of   *)
(* its pieces; None is <<>> and a present environment value s is <<s>>;    *)
(* a dict is a record; a list is a sequence.  The long "text" of an        *)
(* analysis document is abbreviated to its first sentence.                 *)
(***************************************************************************)
EXTENDS Integers, Sequences, FiniteSets, TLC

VARIABLES
    token,      \* os.getenv("FETCHSERP_API_TOKEN"): <<>> (None) or <<s>>
    port_env,   \* os.getenv("PORT"): <<>> (unset) or <<s>>
    PORT,       \* the module's PORT once line 15 has run (0 before)
    pc,         \* where the process is: start, check, main, create, run, serving, exited
    exit_code,  \* the process's exit status (-1 while it runs)
    mcp,        \* names of the tools registered on the FastMCP server
    now,        \* wall-clock time of the environment (the code never reads it)
    log,        \* history of the tool calls handled: tool, arg, time, returned value
    alone,      \* reference results of calls run alone (filled in SpecAlone only)
    api         \* the last call_fetchserp call: its request, the HTTP outcome, its result

vars == <<token, port_env, PORT, pc, exit_code, mcp, now, log, alone, api>>

----------------------------------------------------------------------------
(* Bounds of the model *)

MaxCalls == 3
MaxTimedCalls == 2
MaxTime == 2

----------------------------------------------------------------------------
(* Python helpers *)

\* a function's normal return and a raised exception
Return(v) == [raised |-> FALSE, exc |-> "", value |-> v]
Raise(e) == [raised |-> TRUE, exc |-> e, value |-> <<>>]

UpperCase ==
    <<"A","B","C","D","E","F","G","H","I","J","K","L","M",
      "N","O","P","Q","R","S","T","U","V","W","X","Y","Z">>
LowerCase ==
    <<"a","b","c","d","e","f","g","h","i","j","k","l","m",
      "n","o","p","q","r","s","t","u","v","w","x","y","z">>

\* str.lower() of one character
lower_char(c) ==
    IF \E i \in DOMAIN UpperCase : UpperCase[i] = c
    THEN LowerCase[CHOOSE i \in DOMAIN UpperCase : UpperCase[i] = c]
    ELSE c

\* str.lower()
lower(s) == [i \in DOMAIN s |-> lower_char(s[i])]

\* word in s  (substring test)
contains(s, word) ==
    \E i \in 1..(Len(s) - Len(word) + 1) : SubSeq(s, i, i + Len(word) - 1) = word

\* any(word in query_lower for word in words)
any_in(words, query_lower) ==
    \E k \in DOMAIN words : contains(query_lower, words[k])

\* json.dumps(obj): the text is the JSON encoding of obj
json_dumps(obj) == <<"json", obj>>

\* response.json(): parse a body; a body that is not JSON raises
json_loads(body) ==
    IF body[1] = "json" THEN Return(body[2]) ELSE Raise("JSONDecodeError")

\* [{"type": "text", "text": <json>}]
text_content(obj) == << [type |-> "text", text |-> json_dumps(obj)] >>

\* d.get(key) on a dict kept as a sequence of <<key, value>> pairs; <<>> is None
dict_get(d, key) ==
    IF \E i \in DOMAIN d : d[i][1] = key
    THEN <<d[CHOOSE i \in DOMAIN d : d[i][1] = key][2]>>
    ELSE <<>>

\* list(d.keys())
dict_keys(d) == [i \in DOMAIN d |-> d[i][1]]

----------------------------------------------------------------------------
(* Module level: environment and token check *)

FETCHSERP_BASE_URL == "https://api.fetchserp.com/api/v1"

\* int(os.getenv("PORT", 8000))
int_port(env) ==
    IF env = <<>> THEN Return(8000)
    ELSE IF env[1] = "8080" THEN Return(8080)
    ELSE Raise("ValueError")

\* not FETCHSERP_API_TOKEN, with the token None only
not_token_none_only(t) == t = <<>>

\* not FETCHSERP_API_TOKEN
not_token(t) == t = <<>> \/ t[1] = ""

----------------------------------------------------------------------------
(* search *)

seo_analysis_words ==
    << <<"s","e","o">>,
       <<"a","u","d","i","t">>,
       <<"a","n","a","l","y","z","e">>,
       <<"w","e","b","s","i","t","e">>,
       <<"t","e","c","h","n","i","c","a","l">>,
       <<"o","p","t","i","m","i","z","a","t","i","o","n">> >>
keyword_research_words ==
    << <<"k","e","y","w","o","r","d">>,
       <<"s","e","a","r","c","h"," ","v","o","l","u","m","e">>,
       <<"s","u","g","g","e","s","t","i","o","n","s">>,
       <<"l","o","n","g"," ","t","a","i","l">>,
       <<"r","e","s","e","a","r","c","h">> >>
domain_analysis_words ==
    << <<"d","o","m","a","i","n">>,
       <<"b","a","c","k","l","i","n","k">>,
       <<"a","u","t","h","o","r","i","t","y">>,
       <<"m","o","z">>,
       <<"l","i","n","k","s">>,
       <<"d","n","s">>,
       <<"w","h","o","i","s">> >>
serp_analysis_words ==
    << <<"s","e","r","p">>,
       <<"r","a","n","k","i","n","g">>,
       <<"g","o","o","g","l","e">>,
       <<"s","e","a","r","c","h"," ","r","e","s","u","l","t","s">>,
       <<"p","o","s","i","t","i","o","n">>,
       <<"i","n","d","e","x","a","t","i","o","n">> >>
web_scraping_words ==
    << <<"s","c","r","a","p","e">>,
       <<"e","x","t","r","a","c","t">>,
       <<"c","o","n","t","e","n","t">>,
       <<"d","a","t","a">>,
       <<"c","r","a","w","l">> >>
competitor_analysis_words ==
    << <<"c","o","m","p","e","t","i","t","o","r">>,
       <<"c","o","m","p","e","t","i","t","i","o","n">>,
       <<"r","i","v","a","l">>,
       <<"c","o","m","p","a","r","e">>,
       <<"c","o","m","p","e","t","i","t","i","v","e">> >>

seo_analysis_item ==
    [id |-> "seo_analysis",
     title |-> "SEO Analysis & Website Audit",
     url |-> "https://www.fetchserp.com/api/web-page-seo-analysis"]
keyword_research_item ==
    [id |-> "keyword_research",
     title |-> "Keyword Research & Search Intelligence",
     url |-> "https://www.fetchserp.com/api/keywords-search-volume"]
domain_analysis_item ==
    [id |-> "domain_analysis",
     title |-> "Domain Intelligence & Backlink Analysis",
     url |-> "https://www.fetchserp.com/api/backlinks"]
serp_analysis_item ==
    [id |-> "serp_analysis",
     title |-> "SERP Intelligence & Ranking Analysis",
     url |-> "https://www.fetchserp.com/api/serp"]
web_scraping_item ==
    [id |-> "web_scraping",
     title |-> "Web Scraping & Data Extraction",
     url |-> "https://www.fetchserp.com/api/scrape"]
competitor_analysis_item ==
    [id |-> "competitor_analysis",
     title |-> "Competitive Intelligence & Market Analysis",
     url |-> "https://www.fetchserp.com/api/competitive-analysis"]

\* the list assigned when no category matched
default_results ==
    << [id |-> "seo_analysis",
        title |-> "SEO Analysis & Website Audit",
        url |-> "https://www.fetchserp.com/api/web-page-seo-analysis"],
       [id |-> "keyword_research",
        title |-> "Keyword Research & Search Intelligence",
        url |-> "https://www.fetchserp.com/api/keywords-search-volume"],
       [id |-> "domain_analysis",
        title |-> "Domain Intelligence & Backlink Analysis",
        url |-> "https://www.fetchserp.com/api/backlinks"],
       [id |-> "serp_analysis",
        title |-> "SERP Intelligence & Ranking Analysis",
        url |-> "https://www.fetchserp.com/api/serp"] >>

\* if any(...): results.append(item)
append_if(results, words, query_lower, item) ==
    IF any_in(words, query_lower) THEN Append(results, item) ELSE results

\* the six tests written as one if / elif chain: only the first match appends
categorize_elif(results, query_lower) ==
    IF any_in(seo_analysis_words, query_lower)
        THEN Append(results, seo_analysis_item)
    ELSE IF any_in(keyword_research_words, query_lower)
        THEN Append(results, keyword_research_item)
    ELSE IF any_in(domain_analysis_words, query_lower)
        THEN Append(results, domain_analysis_item)
    ELSE IF any_in(serp_analysis_words, query_lower)
        THEN Append(results, serp_analysis_item)
    ELSE IF any_in(web_scraping_words, query_lower)
        THEN Append(results, web_scraping_item)
    ELSE IF any_in(competitor_analysis_words, query_lower)
        THEN Append(results, competitor_analysis_item)
    ELSE results

\* the six independent category tests, in source order
categorize(results, query_lower) ==
    LET r1 == append_if(results, seo_analysis_words, query_lower, seo_analysis_item)
        r2 == append_if(r1, keyword_research_words, query_lower, keyword_research_item)
        r3 == append_if(r2, domain_analysis_words, query_lower, domain_analysis_item)
        r4 == append_if(r3, serp_analysis_words, query_lower, serp_analysis_item)
        r5 == append_if(r4, web_scraping_words, query_lower, web_scraping_item)
        r6 == append_if(r5, competitor_analysis_words, query_lower, competitor_analysis_item)
    IN  r6

\* if not results: results = [the four default items]
or_default(results) == IF results = <<>> THEN default_results ELSE results

\* the results list of the last search handled (<<>> when there is none)
last_results ==
    LET S == {i \in DOMAIN log : log[i].tool = "search"}
    IN  IF S = {} THEN <<>>
        ELSE LET m == CHOOSE i \in S : \A j \in S : j <= i
             IN  log[m].ret.value[1].text[2].results

\* search with results kept in one list shared by all calls instead of a local
search_shared(query) ==
    Return(text_content([results |-> or_default(categorize(last_results, lower(query)))]))

\* the search tool
search(query) ==
    LET query_lower == lower(query)
        results == categorize(<<>>, query_lower)
    IN  Return(text_content([results |-> or_default(results)]))

----------------------------------------------------------------------------
(* fetch *)

seo_analysis_doc ==
    [id |-> "seo_analysis",
     title |-> "SEO Analysis & Website Audit",
     text |-> "FetchSERP provides comprehensive SEO analysis through the web_page_seo_analysis API endpoint. ...",
     url |-> "https://docs.fetchserp.com/api-reference/seo-analysis/web-page-seo-analysis",
     metadata |-> [api_endpoint |-> "web_page_seo_analysis",
                   data_freshness |-> "real-time",
                   analysis_depth |-> "comprehensive",
                   output_format |-> "structured_json"]]
keyword_research_doc ==
    [id |-> "keyword_research",
     title |-> "Keyword Research & Search Intelligence",
     text |-> "FetchSERP's keyword research capabilities provide advanced search intelligence through multiple API endpoints: ...",
     url |-> "https://docs.fetchserp.com/api-reference/keywords/keywords-search-volume",
     metadata |-> [api_endpoints |-> <<"keywords_search_volume", "keywords_suggestions",
                                       "long_tail_keywords_generator">>,
                   geographic_coverage |-> "200+ countries",
                   data_sources |-> "google_keyword_planner_and_serp_data",
                   update_frequency |-> "monthly"]]
domain_analysis_doc ==
    [id |-> "domain_analysis",
     title |-> "Domain Intelligence & Backlink Analysis",
     text |-> "FetchSERP provides comprehensive domain intelligence and backlink analysis through multiple specialized APIs: ...",
     url |-> "https://docs.fetchserp.com/api-reference/domains/backlinks",
     metadata |-> [api_endpoints |-> <<"backlinks", "moz", "domain_infos", "domain_emails">>,
                   backlink_database |-> "200+ billion links",
                   moz_integration |-> "official_api_partnership",
                   data_freshness |-> "updated_daily"]]
serp_analysis_doc ==
    [id |-> "serp_analysis",
     title |-> "SERP Intelligence & Ranking Analysis",
     text |-> "FetchSERP offers advanced SERP analysis and ranking intelligence across multiple search engines: ...",
     url |-> "https://docs.fetchserp.com/api-reference/serp/serp",
     metadata |-> [search_engines |-> <<"google", "bing", "yahoo", "duckduckgo">>,
                   geographic_coverage |-> "200+ countries",
                   api_endpoints |-> <<"serp", "serp_ai", "serp_html", "ranking",
                                       "page_indexation">>,
                   response_time |-> "sub_second"]]
web_scraping_doc ==
    [id |-> "web_scraping",
     title |-> "Web Scraping & Data Extraction",
     text |-> "FetchSERP provides advanced web scraping and data extraction capabilities for comprehensive website analysis: ...",
     url |-> "https://docs.fetchserp.com/api-reference/scraping/scrape",
     metadata |-> [api_endpoints |-> <<"scrape", "scrape_js", "scrape_js_with_proxy",
                                       "domain_scraping">>,
                   javascript_support |-> "full_browser_automation",
                   proxy_locations |-> "50+ countries",
                   max_pages_per_domain |-> "200"]]
competitor_analysis_doc ==
    [id |-> "competitor_analysis",
     title |-> "Competitive Intelligence & Market Analysis",
     text |-> "FetchSERP enables comprehensive competitive intelligence by combining multiple API endpoints for strategic market analysis: ...",
     url |-> "https://docs.fetchserp.com/api-reference/competitive-analysis",
     metadata |-> [analysis_scope |-> "comprehensive_multi_api",
                   data_sources |-> <<"seo_analysis", "backlinks", "keywords", "serp", "moz",
                                      "domain_intelligence">>,
                   competitive_depth |-> "strategic_recommendations_included",
                   update_frequency |-> "real_time_on_demand"]]

\* the dict with one key spelt differently from the id that search returns
analysis_data_mistyped ==
    << <<"seo_analysis", seo_analysis_doc>>,
       <<"keyword_research", keyword_research_doc>>,
       <<"domain_analysis", domain_analysis_doc>>,
       <<"serp_analysis", serp_analysis_doc>>,
       <<"web_scrapping", web_scraping_doc>>,
       <<"competitor_analysis", competitor_analysis_doc>> >>

\* the dict of fetch, in insertion order
analysis_data ==
    << <<"seo_analysis", seo_analysis_doc>>,
       <<"keyword_research", keyword_research_doc>>,
       <<"domain_analysis", domain_analysis_doc>>,
       <<"serp_analysis", serp_analysis_doc>>,
       <<"web_scraping", web_scraping_doc>>,
       <<"competitor_analysis", competitor_analysis_doc>> >>

\* ', '.join(items)
join(sep, items) == [sep |-> sep, items |-> items]

\* the document returned for an id that is no key of analysis_data
error_data(id) ==
    [id |-> "error",
     title |-> <<"Unknown Analysis ID: ", id>>,
     text |-> <<"The requested analysis ID '", id,
                "' is not available. Available analysis IDs are: ",
                join(", ", dict_keys(analysis_data)),
                ". Please use the search tool first to find valid analysis IDs.">>,
     url |-> "https://docs.fetchserp.com/api-reference/",
     metadata |-> [error |-> "invalid_analysis_id",
                   available_ids |-> dict_keys(analysis_data)]]

\* fetch with analysis_data[id] in place of analysis_data.get(id)
fetch_subscript(id) ==
    LET data == dict_get(analysis_data, id)
    IN  IF data = <<>> THEN Raise("KeyError") ELSE Return(text_content(data[1]))

\* fetch answering an unknown id with a bare error object, not a document
fetch_bare_error(id) ==
    LET data == dict_get(analysis_data, id)
    IN  IF data = <<>>
        THEN Return(text_content([error |-> "invalid_analysis_id"]))
        ELSE Return(text_content(data[1]))

\* fetch serving an id only while a search that returned it is at most one tick old
fetch_expiring(id) ==
    LET data == dict_get(analysis_data, id)
        fresh == \E i \in DOMAIN log :
                    /\ log[i].tool = "search"
                    /\ now - log[i].at <= 1
                    /\ \E k \in DOMAIN log[i].ret.value[1].text[2].results :
                          log[i].ret.value[1].text[2].results[k].id = id
    IN  IF data = <<>> \/ ~fresh
        THEN Return(text_content(error_data(id)))
        ELSE Return(text_content(data[1]))

\* the fetch tool
fetch(id) ==
    LET data == dict_get(analysis_data, id)
    IN  IF data = <<>>
        THEN Return(text_content(error_data(id)))
        ELSE Return(text_content(data[1]))

----------------------------------------------------------------------------
(* call_fetchserp: the upstream client *)

\* response.raise_for_status(): httpx raises unless the status is 2xx
raise_for_status(status) ==
    IF status >= 200 /\ status <= 299 THEN Return(status) ELSE Raise("HTTPStatusError")

\* client.get(...); raise_for_status(); return response.json() -- the try body
try_get(http) ==
    IF http.kind = "transport" THEN Raise(http.exc)
    ELSE IF raise_for_status(http.status).raised THEN raise_for_status(http.status)
    ELSE json_loads(http.body)

\* call_fetchserp(endpoint, params), given what the HTTP request meets
call_fetchserp(endpoint, params, http) ==
    LET url == <<FETCHSERP_BASE_URL, "/", endpoint>>
        headers == [Authorization |-> <<"Bearer ", token[1]>>]
        r == try_get(http)
    IN  [request |-> [url |-> url, params |-> params, headers |-> headers],
         ret |-> IF r.raised
                 THEN Return([error |-> <<"API call failed: ", r.exc>>])
                 ELSE r]

----------------------------------------------------------------------------
(* Inputs *)

Tokens == { <<>>, <<"">>, <<"tok-123">> }
PortEnvs == { <<>>, <<"8080">>, <<"abc">> }

Queries ==
    { <<>>,
      <<"h","e","l","l","o">>,
      <<"S","E","O"," ","A","u","d","i","t">>,
      <<"r","e","s","e","a","r","c","h">>,
      <<"w","h","o","i","s","d","a","t","a">>,
      <<"C","o","m","p","a","r","e"," ","G","o","o","g","l","e"," ","l","i","n","k","s">> }

FetchIds ==
    { "seo_analysis", "keyword_research", "domain_analysis", "serp_analysis",
      "web_scraping", "competitor_analysis", "error", "unknown_id" }

Endpoints == { "serp", "backlinks", "scrape" }
Params == { [query |-> "seo tools", country |-> "us"],
            [query |-> "", country |-> "us"] }
Bodies == { <<"json", [data |-> <<"r1", "r2">>]>>,
            <<"json", [error |-> "quota exceeded"]>>,
            <<"html", "<html>Bad Gateway</html>">> }
HttpOutcomes ==
    [kind : {"transport"}, exc : {"ConnectError", "ReadTimeout"}]
    \cup [kind : {"response"}, status : {200, 201, 301, 400, 401, 404, 429, 500, 503},
          body : Bodies]

NoCall == [called |-> FALSE]

----------------------------------------------------------------------------
(* The state machine *)

\* the reference of the independence check: nothing recorded, or what each call
\* returns when it is the only call a freshly started server handles
NoBaseline == [search |-> <<>>, fetch |-> <<>>]
Baseline ==
    [search |-> [q \in Queries |-> search(q)],
     fetch |-> [id \in FetchIds |-> fetch(id)]]

\* the process before its first statement
Boot ==
    /\ token \in Tokens
    /\ port_env \in PortEnvs
    /\ PORT = 0
    /\ pc = "start"
    /\ exit_code = -1
    /\ mcp = {}
    /\ now = 0
    /\ log = <<>>
    /\ api = NoCall

Init == Boot /\ alone = NoBaseline

\* lines 14-15: read the environment; int() of a bad PORT is an uncaught ValueError
LoadEnvironment ==
    /\ pc = "start"
    /\ IF int_port(port_env).raised
       THEN /\ pc' = "exited"
            /\ exit_code' = 1
            /\ PORT' = PORT
       ELSE /\ pc' = "check"
            /\ PORT' = int_port(port_env).value
            /\ exit_code' = exit_code
    /\ UNCHANGED <<token, port_env, mcp, now, log, alone, api>>

\* lines 17-19: if not FETCHSERP_API_TOKEN: exit(1)
ModuleTokenCheck ==
    /\ pc = "check"
    /\ IF not_token(token)
       THEN pc' = "exited" /\ exit_code' = 1
       ELSE pc' = "main" /\ exit_code' = exit_code
    /\ UNCHANGED <<token, port_env, PORT, mcp, now, log, alone, api>>

\* lines 478-482: the same test under __main__
MainTokenCheck ==
    /\ pc = "main"
    /\ IF not_token(token)
       THEN pc' = "exited" /\ exit_code' = 1
       ELSE pc' = "create" /\ exit_code' = exit_code
    /\ UNCHANGED <<token, port_env, PORT, mcp, now, log, alone, api>>

\* line 484: create_mcp_server() registers the two tools
CreateServer ==
    /\ pc = "create"
    /\ mcp' = {"search", "fetch"}
    /\ pc' = "run"
    /\ UNCHANGED <<token, port_env, PORT, exit_code, now, log, alone, api>>

\* line 492: server.run(...)
Run ==
    /\ pc = "run"
    /\ pc' = "serving"
    /\ UNCHANGED <<token, port_env, PORT, exit_code, mcp, now, log, alone, api>>

\* one search call, handled from start to end
Search(query, cap) ==
    /\ pc = "serving"
    /\ "search" \in mcp
    /\ Len(log) < cap
    /\ log' = Append(log, [tool |-> "search", arg |-> query, at |-> now,
                           ret |-> search(query)])
    /\ UNCHANGED <<token, port_env, PORT, pc, exit_code, mcp, now, alone, api>>

\* one fetch call, handled from start to end
Fetch(id, cap) ==
    /\ pc = "serving"
    /\ "fetch" \in mcp
    /\ Len(log) < cap
    /\ log' = Append(log, [tool |-> "fetch", arg |-> id, at |-> now,
                           ret |-> fetch(id)])
    /\ UNCHANGED <<token, port_env, PORT, pc, exit_code, mcp, now, alone, api>>

\* the environment's clock advances
Tick ==
    /\ now < MaxTime
    /\ now' = now + 1
    /\ UNCHANGED <<token, port_env, PORT, pc, exit_code, mcp, log, alone, api>>

\* one call of the upstream client, with the HTTP outcome it meets
CallFetchserp(endpoint, params, http) ==
    /\ mcp # {}
    /\ api' = [called |-> TRUE, endpoint |-> endpoint, http |-> http,
               request |-> call_fetchserp(endpoint, params, http).request,
               ret |-> call_fetchserp(endpoint, params, http).ret]
    /\ UNCHANGED <<token, port_env, PORT, pc, exit_code, mcp, now, log, alone>>

Startup ==
    \/ LoadEnvironment
    \/ ModuleTokenCheck
    \/ MainTokenCheck
    \/ CreateServer
    \/ Run

Next ==
    \/ Startup
    \/ \E query \in Queries : Search(query, MaxCalls)
    \/ \E id \in FetchIds : Fetch(id, MaxCalls)

Spec == Init /\ [][Next]_vars

\* the same server, with the result of every call on a fresh server recorded at
\* the start for comparison
InitAlone == Boot /\ alone = Baseline

SpecAlone == InitAlone /\ [][Next]_vars

\* the same server with the clock of its environment running
NextClock ==
    \/ Startup
    \/ Tick
    \/ \E query \in Queries : Search(query, MaxTimedCalls)
    \/ \E id \in FetchIds : Fetch(id, MaxTimedCalls)

SpecClock == Init /\ [][NextClock]_vars

\* the upstream client on a created server
InitUpstream ==
    /\ token = <<"tok-123">>
    /\ port_env = <<>>
    /\ PORT = 8000
    /\ pc = "serving"
    /\ exit_code = -1
    /\ mcp = {"search", "fetch"}
    /\ now = 0
    /\ log = <<>>
    /\ alone = NoBaseline
    /\ api = NoCall

NextUpstream ==
    \E endpoint \in Endpoints, params \in Params, http \in HttpOutcomes :
        CallFetchserp(endpoint, params, http)

SpecUpstream == InitUpstream /\ [][NextUpstream]_vars

----------------------------------------------------------------------------
(* Reading the log *)

IsSearch(i) == log[i].tool = "search"
IsFetch(i) == log[i].tool = "fetch"

\* the object whose JSON encoding call i returned (the call returned one block)
Payload(i) == log[i].ret.value[1].text[2]

\* call i returned exactly one content block of type "text" holding JSON
OneJsonTextBlock(i) ==
    /\ ~log[i].ret.raised
    /\ Len(log[i].ret.value) = 1
    /\ DOMAIN log[i].ret.value[1] = {"type", "text"}
    /\ log[i].ret.value[1].type = "text"
    /\ log[i].ret.value[1].text[1] = "json"

\* the ids of the items search call i returned, in order, and as a set
ItemIds(i) == [k \in DOMAIN Payload(i).results |-> Payload(i).results[k].id]
ItemIdSet(i) == {ItemIds(i)[k] : k \in DOMAIN ItemIds(i)}

\* fetch call j was answered with the unknown-id document
NotFound(j) ==
    \/ log[j].ret.raised
    \/ Payload(j).id = "error"

KnownIds ==
    { "seo_analysis", "keyword_research", "domain_analysis", "serp_analysis",
      "web_scraping", "competitor_analysis" }

CategoryOrder ==
    << "seo_analysis", "keyword_research", "domain_analysis", "serp_analysis",
       "web_scraping", "competitor_analysis" >>

CategoryWords(c) ==
    CASE c = "seo_analysis" -> seo_analysis_words
      [] c = "keyword_research" -> keyword_research_words
      [] c = "domain_analysis" -> domain_analysis_words
      [] c = "serp_analysis" -> serp_analysis_words
      [] c = "web_scraping" -> web_scraping_words
      [] c = "competitor_analysis" -> competitor_analysis_words

\* some keyword of category c is a substring of the (lower-cased) query
HasKeyword(c, query_lower) ==
    \E k \in DOMAIN CategoryWords(c) : contains(query_lower, CategoryWords(c)[k])

----------------------------------------------------------------------------
(* The claims *)

\* C1: every id in the list a search returned can be fetched: a later fetch of
\* that id returns the analysis document of that id, never the unknown-id document.
C1_SearchIdsFetchable ==
    \A i \in DOMAIN log : \A j \in DOMAIN log :
        (i < j /\ IsSearch(i) /\ IsFetch(j) /\ log[j].arg \in ItemIdSet(i))
        => /\ ~NotFound(j)
           /\ Payload(j).id = log[j].arg
           /\ "error" \notin DOMAIN Payload(j).metadata

\* C1 witness: a search returned web_scraping and a later fetch of it got the document.
C1_Witness ==
    \E i \in DOMAIN log : \E j \in DOMAIN log :
        /\ i < j /\ IsSearch(i) /\ IsFetch(j)
        /\ log[j].arg = "web_scraping"
        /\ log[j].arg \in ItemIdSet(i)
        /\ Payload(j).id = "web_scraping"

\* C2 (as claimed): the fetch issued right after a search, for an id of one of its
\* items, returns an entry with the same id, the same title and the same url.
C2_FetchMatchesSearchItem ==
    \A i \in DOMAIN log :
        (i + 1 \in DOMAIN log /\ IsSearch(i) /\ IsFetch(i + 1))
        => \A k \in DOMAIN Payload(i).results :
              Payload(i).results[k].id = log[i + 1].arg
              => /\ Payload(i + 1).id = Payload(i).results[k].id
                 /\ Payload(i + 1).title = Payload(i).results[k].title
                 /\ Payload(i + 1).url = Payload(i).results[k].url

\* C3 (as claimed): a fetch of an id with no entry completes normally and reports
\* the id in a "missing" list of its payload.
C3_UnknownIdInMissingList ==
    \A j \in DOMAIN log :
        (IsFetch(j) /\ log[j].arg \notin KnownIds)
        => /\ ~log[j].ret.raised
           /\ "missing" \in DOMAIN Payload(j)
           /\ \E k \in DOMAIN Payload(j).missing : Payload(j).missing[k] = log[j].arg

\* C3 (amended): a fetch of an id with no entry completes normally and returns one
\* text block whose document has id "error", names the unknown id in its title and
\* carries metadata error = invalid_analysis_id with the six available ids; the
\* payload has no "missing" list, and a fetch of a valid id before or after it
\* still returns that id's document.
C3_UnknownIdErrorDocument ==
    \A j \in DOMAIN log :
        IsFetch(j) =>
            IF log[j].arg \in KnownIds
            THEN ~log[j].ret.raised /\ Payload(j).id = log[j].arg
            ELSE /\ OneJsonTextBlock(j)
                 /\ "missing" \notin DOMAIN Payload(j)
                 /\ Payload(j).id = "error"
                 /\ Payload(j).title = <<"Unknown Analysis ID: ", log[j].arg>>
                 /\ Payload(j).metadata.error = "invalid_analysis_id"
                 /\ Payload(j).metadata.available_ids = CategoryOrder

\* C3 witness: a fetch of a valid id next to a fetch of an unknown id.
C3_Witness ==
    \E i \in DOMAIN log :
        /\ i + 1 \in DOMAIN log
        /\ IsFetch(i) /\ log[i].arg = "serp_analysis" /\ Payload(i).id = "serp_analysis"
        /\ IsFetch(i + 1) /\ log[i + 1].arg = "unknown_id" /\ Payload(i + 1).id = "error"

\* C4: any two searches with the same query, whatever was called in between,
\* returned the same ids in the same order.
C4_SearchIdsDeterministic ==
    \A i \in DOMAIN log : \A j \in DOMAIN log :
        (IsSearch(i) /\ IsSearch(j) /\ log[i].arg = log[j].arg)
        => ItemIds(i) = ItemIds(j)

\* C4 witness: the same query searched twice with a different call in between.
C4_Witness ==
    \E i \in DOMAIN log : \E j \in DOMAIN log :
        /\ i + 1 < j
        /\ IsSearch(i) /\ IsSearch(j) /\ log[i].arg = log[j].arg
        /\ IsSearch(i + 1) /\ log[i + 1].arg # log[i].arg
        /\ ItemIds(i) = <<"domain_analysis", "web_scraping">>
        /\ ItemIds(j) = ItemIds(i)

\* C5 (as claimed): there is a TTL such that a fetch of an id, issued when more
\* than TTL has elapsed since every earlier search that returned it, is answered
\* not-found.
C5_ExpiresAfterTTL ==
    \E ttl \in 0..(MaxTime - 1) :
        \A j \in DOMAIN log :
            (/\ IsFetch(j)
             /\ \E i \in 1..(j - 1) : IsSearch(i) /\ log[j].arg \in ItemIdSet(i)
             /\ \A i \in 1..(j - 1) :
                    (IsSearch(i) /\ log[j].arg \in ItemIdSet(i))
                    => log[j].at - log[i].at > ttl)
            => NotFound(j)

\* C5 (amended): an id returned by search stays visible to fetch without any time
\* bound: a fetch of it returns its document however much time has elapsed since
\* the search.
C5_NoExpiry ==
    \A i \in DOMAIN log : \A j \in DOMAIN log :
        (/\ i < j /\ IsSearch(i) /\ IsFetch(j)
         /\ log[j].arg \in ItemIdSet(i)
         /\ log[j].at - log[i].at >= 1)
        => ~NotFound(j) /\ Payload(j).id = log[j].arg

\* C5 witness: an id fetched MaxTime ticks after the search that returned it.
C5_Witness ==
    \E i \in DOMAIN log : \E j \in DOMAIN log :
        /\ i < j /\ IsSearch(i) /\ IsFetch(j)
        /\ log[j].arg \in ItemIdSet(i)
        /\ log[j].at - log[i].at >= MaxTime
        /\ Payload(j).id = log[j].arg

\* C6 (as claimed): every call returns one text block of JSON whose top level is
\* {items} for search and {docs, missing} for fetch.
C6_ItemsDocsMissingShape ==
    \A i \in DOMAIN log :
        /\ OneJsonTextBlock(i)
        /\ IsSearch(i) => DOMAIN Payload(i) = {"items"}
        /\ IsFetch(i) => DOMAIN Payload(i) = {"docs", "missing"}

\* C6 (amended): every search call and every fetch call (known or unknown id)
\* returns exactly one content block of type "text" holding JSON; the top level is
\* {results: [...]} for search, each item {id, title, url}, and one document
\* {id, title, text, url, metadata} for fetch.
C6_ResultsAndDocumentShape ==
    \A i \in DOMAIN log :
        /\ OneJsonTextBlock(i)
        /\ IsSearch(i) =>
              /\ DOMAIN Payload(i) = {"results"}
              /\ \A k \in DOMAIN Payload(i).results :
                    DOMAIN Payload(i).results[k] = {"id", "title", "url"}
        /\ IsFetch(i) => DOMAIN Payload(i) = {"id", "title", "text", "url", "metadata"}

\* C6 witness: a search, a fetch of a known id and a fetch of an unknown id.
C6_Witness ==
    /\ \E i \in DOMAIN log : IsSearch(i) /\ Len(Payload(i).results) >= 1
    /\ \E i \in DOMAIN log : IsFetch(i) /\ log[i].arg \in KnownIds
    /\ \E i \in DOMAIN log : IsFetch(i) /\ log[i].arg \notin KnownIds

\* C7 (as claimed): an upstream call that met a non-2xx status or a transport
\* failure raised; one that met a 2xx JSON response returned the parsed JSON.
C7_UpstreamFailureRaises ==
    api.called =>
        LET is_2xx == /\ api.http.kind = "response"
                      /\ api.http.status >= 200
                      /\ api.http.status <= 299
        IN  /\ ~is_2xx => api.ret.raised
            /\ (is_2xx /\ api.http.body[1] = "json")
               => ~api.ret.raised /\ api.ret.value = api.http.body[2]

\* C8: every call, whatever calls were handled before it, returned exactly what
\* the same call returns on a server that has handled nothing else.
C8_CallsIndependent ==
    \A i \in DOMAIN log :
        /\ IsSearch(i) => log[i].ret = alone.search[log[i].arg]
        /\ IsFetch(i) => log[i].ret = alone.fetch[log[i].arg]

\* C8 witness: searches and fetches interleaved up to the call bound.
C8_Witness ==
    /\ Len(log) >= 3
    /\ IsSearch(1) /\ IsFetch(2) /\ IsSearch(3)
    /\ log[1].arg # log[3].arg
    /\ log[3].ret = alone.search[log[3].arg]

\* C9: with FETCHSERP_API_TOKEN unset or empty the process never gets past the
\* module-level check: no server is created, no call is handled, and the step it
\* takes at the check is exit with status 1.
C9_NoTokenNoServer ==
    /\ [](token \in {<<>>, <<"">>}
          => /\ pc \in {"start", "check", "exited"}
             /\ mcp = {}
             /\ log = <<>>
             /\ pc = "exited" => exit_code = 1)
    /\ [][(token \in {<<>>, <<"">>} /\ pc = "check")
          => (pc' = "exited" /\ exit_code' = 1)]_vars

\* C9 witness: the empty token stopped the process at the token check.
C9_Witness ==
    /\ token = <<"">>
    /\ PORT = 8000
    /\ pc = "exited"
    /\ exit_code = 1
    /\ mcp = {}

\* C10: when some category keyword occurs in the lower-cased query, the ids search
\* returns are exactly the categories with a keyword occurring as a substring, each
\* once, in the fixed category order.
C10_CategoriesByKeyword ==
    \A i \in DOMAIN log :
        IsSearch(i) =>
            LET query_lower == lower(log[i].arg)
                Matched(c) == HasKeyword(c, query_lower)
                expected == SelectSeq(CategoryOrder, Matched)
            IN  expected # <<>> => ItemIds(i) = expected

\* C10 witness: a mixed-case query matching three categories out of query order.
C10_Witness ==
    \E i \in DOMAIN log :
        /\ IsSearch(i)
        /\ log[i].arg = <<"C","o","m","p","a","r","e"," ","G","o","o","g","l","e"," ",
                          "l","i","n","k","s">>
        /\ ItemIds(i) = <<"domain_analysis", "serp_analysis", "competitor_analysis">>

====
